---- MODULE Spec2Model ----
(***************************************************************************)
(* Model of the SCORE CLI showcase entrypoint (src/showcases/cli/main.rs). *)
(*                                                                         *)
(* Strings are sequences of one-character strings, so that to_lowercase,   *)
(* split(',') and trim are computed character by character as the code     *)
(* computes them.  Indices into `configs` are 0-based as in the code       *)
(* (configs[index] of the code is configs[index + 1] here); app indices    *)
(* carried by children and errors are the 1-based `i + 1` of the code.     *)
(*                                                                         *)
(* The environment decides whether Command::spawn and Child::wait succeed, *)
(* when and with which status a child ends, what the operator answers, and *)
(* whether a cliclack call whose io::Result the code propagates with `?`   *)
(* succeeds.  println! is taken to succeed.                                *)
(***************************************************************************)
EXTENDS Integers, Sequences, FiniteSets, TLC

VARIABLES
    fs,         \* the directory tree under root_dir (main.rs:78)
    stack,      \* the active calls of visit_dir, innermost last (main.rs:154)
    visited,    \* the entries visit_dir has dealt with so far, in order
    configs,    \* Vec<ScoreConfig> filled by visit_dir (main.rs:80-81)
    examples,   \* args.examples : Option<String> (main.rs:29)
    pc,         \* position of the control thread
    selected,   \* Vec<usize> of selected indices (main.rs:87-143)
    selPos,     \* 1-based position of `for index in selected` (main.rs:145)
    appIdx,     \* `i` of the spawn loop of run_score (main.rs:200)
    children,   \* Vec<(usize, String, Child)> of run_score (main.rs:196)
    waitPos,    \* 1-based position of the wait loop (main.rs:234)
    procs,      \* operating-system process table: every child ever spawned
    slept,      \* the calls of std::thread::sleep made so far (main.rs:211)
    failures,   \* the spawn and wait calls the operating system has failed
    answers,    \* the operator's replies to the prompts so far
    out,        \* lines and prompts written to the terminal so far
    err,        \* the error main returned, if any
    exitCode    \* "running" while the process is alive, then "success"
                \* (status 0) or "failure" (non-zero status)

vars == <<fs, stack, visited, configs, examples, pc, selected, selPos,
          appIdx, children, waitPos,
          procs, slept, failures, answers, out, err, exitCode>>

-----------------------------------------------------------------------------
(* Bounds of the model.                                                    *)

MaxExamples == 2    \* at most this many discovered examples
MaxApps == 2        \* at most this many apps per example
MaxFilterLen == 4   \* at most this many characters in a --examples string
MaxEntries == 3     \* at most this many entries in the tree under root_dir
MaxItems == 2       \* at most this many elements in a descriptor array

-----------------------------------------------------------------------------
(* Strings.                                                                *)

\* char::is_whitespace, restricted to the characters of the model
IsWhitespace(c) == c \in {" ", "\t"}

\* char::to_lowercase, restricted to the characters of the model
LowerChar(c) ==
    CASE c = "A" -> "a"
      [] c = "L" -> "l"
      [] c = "B" -> "b"
      [] OTHER -> c

\* str::to_lowercase
ToLower(s) == [k \in 1..Len(s) |-> LowerChar(s[k])]

\* str::trim_start / trim_end / trim
RECURSIVE TrimStart(_)
TrimStart(s) ==
    IF s = <<>> THEN s
    ELSE IF IsWhitespace(Head(s)) THEN TrimStart(Tail(s)) ELSE s

RECURSIVE TrimEnd(_)
TrimEnd(s) ==
    IF s = <<>> THEN s
    ELSE IF IsWhitespace(s[Len(s)]) THEN TrimEnd(SubSeq(s, 1, Len(s) - 1)) ELSE s

Trim_none(s) == s

Trim(s) == TrimEnd(TrimStart(s))

\* str::split(','): scans s from position k; acc holds the finished tokens,
\* cur the token being read.  The empty string yields one empty token.
RECURSIVE SplitFrom(_, _, _, _)
SplitFrom(s, k, acc, cur) ==
    IF k > Len(s) THEN Append(acc, cur)
    ELSE IF s[k] = "," THEN SplitFrom(s, k + 1, Append(acc, cur), <<>>)
    ELSE SplitFrom(s, k + 1, acc, Append(cur, s[k]))

Split(s) == SplitFrom(s, 1, <<>>, <<>>)

\* examples_str.split(',').map(|s| s.trim()).collect()
RequestedExamples(examples_str) ==
    LET toks == Split(examples_str)
    IN  [k \in 1..Len(toks) |-> Trim(toks[k])]

\* Vec::contains
Contains(seq, x) == \E k \in 1..Len(seq) : seq[k] = x

-----------------------------------------------------------------------------
(* Values.                                                                 *)

None == [some |-> FALSE, val |-> <<>>]
Some(v) == [some |-> TRUE, val |-> v]

NoError == [kind |-> "None"]

\* the names of all configs: configs.iter().map(|c| c.name.as_str())
Names(cfgs) == [k \in 1..Len(cfgs) |-> cfgs[k].name]

-----------------------------------------------------------------------------
(* Selector, non-interactive mode (main.rs:87-116).                        *)

\* examples_str.to_lowercase() == "all"
IsAll_exact(examples_str) == examples_str = <<"a", "l", "l">>

IsAll(examples_str) == ToLower(examples_str) = <<"a", "l", "l">>

\* (0..configs.len()).collect()
AllIndices(cfgs) == [k \in 1..Len(cfgs) |-> k - 1]

\* for (i, config) in configs.iter().enumerate() {
\*     if requested_examples.contains(&config.name.as_str()) { push(i) } }
RECURSIVE MatchFrom(_, _, _, _)
MatchFrom(cfgs, requested, i, acc) ==
    IF i >= Len(cfgs) THEN acc
    ELSE IF Contains(requested, cfgs[i + 1].name)
         THEN MatchFrom(cfgs, requested, i + 1, Append(acc, i))
         ELSE MatchFrom(cfgs, requested, i + 1, acc)

\* a selector that walks the request instead of the configs: one index per
\* (token, config) match, in request order
RECURSIVE MatchByRequest(_, _)
MatchByRequest(cfgs, requested) ==
    IF requested = <<>> THEN <<>>
    ELSE MatchFrom(cfgs, <<Head(requested)>>, 0, <<>>)
         \o MatchByRequest(cfgs, Tail(requested))

MatchNames(cfgs, requested) == MatchFrom(cfgs, requested, 0, <<>>)

\* a selector that fails as soon as one requested token matches no example
FilterSelect_strict(cfgs, examples_str) ==
    IF IsAll(examples_str)
    THEN [ok |-> TRUE, selected |-> AllIndices(cfgs),
          line |-> [text |-> "Running all examples", n |-> Len(cfgs)]]
    ELSE LET requested == RequestedExamples(examples_str)
             selected_indices == MatchNames(cfgs, requested)
         IN  IF \E k \in 1..Len(requested) : ~Contains(Names(cfgs), requested[k])
             THEN [ok |-> FALSE,
                   error |-> [kind |-> "NoMatch", requested |-> examples_str,
                              available |-> Names(cfgs)]]
             ELSE [ok |-> TRUE, selected |-> selected_indices,
                   line |-> [text |-> "Running examples", req |-> examples_str]]

\* the whole non-interactive branch: the selection, or the bail! of line 106
FilterSelect(cfgs, examples_str) ==
    IF IsAll(examples_str)
    THEN [ok |-> TRUE, selected |-> AllIndices(cfgs),
          line |-> [text |-> "Running all examples", n |-> Len(cfgs)]]
    ELSE LET selected_indices == MatchNames(cfgs, RequestedExamples(examples_str))
         IN  IF selected_indices = <<>>
             THEN [ok |-> FALSE,
                   error |-> [kind |-> "NoMatch", requested |-> examples_str,
                              available |-> Names(cfgs)]]
             ELSE [ok |-> TRUE, selected |-> selected_indices,
                   line |-> [text |-> "Running examples", req |-> examples_str]]

-----------------------------------------------------------------------------
(* Inputs.  An AppConfig keeps `path` and `delay`; `dir`, `args` and `env` *)
(* only parameterise the Command and decide no branch of the program.      *)

SeqsUpTo(S, n) == UNION {[1..k -> S] : k \in 0..n}

ExampleNames == {<<"a">>, <<"b">>}

AppKinds ==
    {[path |-> "/bin/p", delay |-> None],
     [path |-> "/bin/q", delay |-> Some(0)],
     [path |-> "/bin/r", delay |-> Some(2)]}

\* The discovered lists of the model: up to MaxExamples examples with any
\* names; the examples share one app list, the k-th in order of decreasing
\* (or, reversed, increasing) length carrying it from its k-th app on, so that
\* examples with different numbers of apps, and with none, occur in any order.
RECURSIVE Drop(_, _)
Drop(s, k) == IF k = 0 \/ s = <<>> THEN s ELSE Drop(Tail(s), k - 1)

Reverse(s) == [k \in 1..Len(s) |-> s[Len(s) + 1 - k]]

ConfigLists ==
    UNION {
        { LET l == [k \in 1..Len(names) |->
                       [name |-> names[k], apps |-> Drop(apps, k - 1)]]
          IN  IF rev THEN Reverse(l) ELSE l
          : names \in [1..n -> ExampleNames], rev \in BOOLEAN }
        : n \in 0..MaxExamples, apps \in SeqsUpTo(AppKinds, MaxApps) }

Filters ==
    {None,
     Some(<<"A", "l", "L">>),
     Some(<<"c", ",", " ", "b">>),
     Some(<<"c">>)}

\* The names decide the selection only under a name-list filter; under the
\* other filters one naming stands for all of them.
NamesMatter(filter) == filter.some /\ ~IsAll(filter.val)

-----------------------------------------------------------------------------
(* File system and descriptor files (main.rs:154-191).                     *)

\* A file name is a sequence of pieces; this piece is not valid Unicode.
InvalidBytes == "\\xFF"

\* the literal of is_score_file (main.rs:189)
Suffix == <<".score", ".json">>

\* OsStr::to_str (main.rs:188)
ToStr(name) ==
    IF \E k \in 1..Len(name) : name[k] = InvalidBytes
    THEN None
    ELSE Some(name)

\* str::ends_with (main.rs:189)
EndsWith(s, suffix) ==
    /\ Len(s) >= Len(suffix)
    /\ SubSeq(s, Len(s) - Len(suffix) + 1, Len(s)) = suffix

\* is_score_file (main.rs:186-191)
IsScoreFile(e) ==
    LET n == ToStr(e.name)
    IN  IF n.some THEN EndsWith(n.val, Suffix) ELSE FALSE

\* Path::is_symlink looks at the entry itself (main.rs:159)
IsSymlink_filesFollowed(e) == e.kind = "symlink" /\ e.target # "file"

IsSymlink(e) == e.kind = "symlink"

\* Path::is_dir follows symbolic links (main.rs:163)
IsDir(e) == e.target = "dir"

\* JSON texts: text that is no JSON, one object, an array of objects
Malformed == [json |-> "malformed"]
Object(o) == [json |-> "object", value |-> o]
Array(items) == [json |-> "array", value |-> items]

\* serde's derived Deserialize of ScoreConfig (main.rs:41-46): every field
\* is required, unknown fields are ignored; the model's ScoreConfig keeps the
\* name and the apps
Deserialise(o) ==
    IF {"name", "description", "apps"} \subseteq DOMAIN o
    THEN Some([name |-> o.name, apps |-> o.apps])
    ELSE None

Ok(found) == [ok |-> TRUE, found |-> found]
Err(e) == [ok |-> FALSE, error |-> e]

\* serde_json::from_value::<Vec<ScoreConfig>> (main.rs:173-174)
FromArray_firstOnly(items) ==
    IF \A k \in 1..Len(items) : Deserialise(items[k]).some
    THEN Ok(IF items = <<>> THEN <<>> ELSE <<Deserialise(items[1]).val>>)
    ELSE Err("Invalid JSON array")

FromArray(items) ==
    IF \A k \in 1..Len(items) : Deserialise(items[k]).some
    THEN Ok([k \in 1..Len(items) |-> Deserialise(items[k]).val])
    ELSE Err("Invalid JSON array")

\* from_str and from_value of visit_dir (main.rs:170-179): the examples a
\* descriptor text yields, or the context of the failed conversion
Parse(content) ==
    IF content.json = "malformed"
    THEN Err("Invalid JSON")
    ELSE IF content.json = "array"
         THEN FromArray(content.value)
         ELSE LET config == Deserialise(content.value)
              IN  IF config.some THEN Ok(<<config.val>>)
                                 ELSE Err("Invalid JSON")

\* fs::read_dir(dir) in the model's order: the entries of directory d of
\* tree t, from entry i on (the root is directory 0)
RECURSIVE EntriesFrom(_, _, _)
EntriesFrom(t, d, i) ==
    IF i > Len(t)
    THEN <<>>
    ELSE (IF t[i].parent = d THEN <<i>> ELSE <<>>) \o EntriesFrom(t, d, i + 1)

ReadDirOf(t, d) == EntriesFrom(t, d, 1)

-----------------------------------------------------------------------------
(* Directory trees of the model.                                           *)

\* The k-th element of a descriptor array: the names alternate, and every
\* second example has an app with a delay.
Item(k) ==
    IF k % 2 = 1
    THEN [name |-> <<"a">>, description |-> "first", apps |-> <<>>]
    ELSE [name |-> <<"b">>, description |-> "second", comment |-> "",
          apps |-> <<[path |-> "/bin/r", delay |-> Some(2)]>>]

\* an object without the required field `apps`
Incomplete == [name |-> <<"a">>, description |-> "first"]

Items(n) == [k \in 1..n |-> Item(k)]

\* the last of n elements lacks a field
ItemsBadLast(n) == [k \in 1..n |-> IF k = n THEN Incomplete ELSE Item(k)]

Descriptors ==
    {Object(Item(2)), Object(Incomplete), Malformed}
    \cup {Array(Items(n)) : n \in 0..MaxItems}
    \cup {Array(ItemsBadLast(MaxItems))}

\* What an entry can be: `ext` is its name after the stem, `kind` what the
\* entry itself is, `target` what it is once symbolic links are followed,
\* `content` what read_to_string yields for it, if anything.  A symbolic
\* link to a directory points to the root.  Directories are named as
\* descriptors: the name of a directory plays no part in the scan.
EntryKinds ==
    {[ext |-> Suffix, kind |-> "dir", target |-> "dir", content |-> None]}
    \cup {[ext |-> Suffix, kind |-> "file", target |-> "file",
           content |-> Some(d)] : d \in Descriptors}
    \cup {[ext |-> x, kind |-> "file", target |-> "file",
           content |-> Some(Object(Item(2)))]
            : x \in {Suffix \o <<".bak">>, <<InvalidBytes>> \o Suffix}}
    \cup {[ext |-> Suffix, kind |-> "special", target |-> "special",
           content |-> Some(Object(Item(2)))],
          [ext |-> Suffix, kind |-> "symlink", target |-> "file",
           content |-> Some(Object(Item(2)))],
          [ext |-> <<>>, kind |-> "symlink", target |-> "dir",
           content |-> None]}

\* The kinds of the trees that main is run on: a directory, the symbolic
\* links, every kind of entry that holds a valid descriptor text, and files
\* whose parse succeeds or fails.
LoadKinds ==
    {k \in EntryKinds :
        /\ k.ext # <<>> => k.ext[1] # InvalidBytes
        /\ k.content.some =>
              k.content.val \in {Object(Item(2)), Malformed,
                                 Array(Items(MaxItems)),
                                 Array(ItemsBadLast(MaxItems))}}

\* entry i, of kind k, in directory p
Entry(i, p, k) ==
    [parent |-> p, name |-> <<ToString(i)>> \o k.ext, kind |-> k.kind,
     target |-> k.target, content |-> k.content]

\* where the n entries of a tree can lie: each in the root (0) or in an
\* entry listed before it
ParentMaps(n) == {f \in [1..n -> 0..(n - 1)] : \A i \in 1..n : f[i] < i}

Tree(parents, kinds) ==
    [i \in 1..Len(kinds) |-> Entry(i, parents[i], kinds[i])]

\* only directories hold entries
WellFormed(t) ==
    \A i \in 1..Len(t) : t[i].parent # 0 => t[t[i].parent].kind = "dir"

\* the number of examples the descriptor texts of tree t hold
RECURSIVE Described(_)
Described(t) ==
    IF t = <<>>
    THEN 0
    ELSE LET c == t[Len(t)].content
         IN  Described(SubSeq(t, 1, Len(t) - 1))
             + (IF ~c.some \/ c.val.json = "malformed" THEN 0
                ELSE IF c.val.json = "array" THEN Len(c.val.value) ELSE 1)

\* a tree whose scan yields cfgs: one descriptor file holding them all
TreeHolding(cfgs) ==
    <<Entry(1, 0, [ext |-> Suffix, kind |-> "file", target |-> "file",
                   content |-> Some(Array(
                       [k \in 1..Len(cfgs) |->
                           [name |-> cfgs[k].name, description |-> "",
                            apps |-> cfgs[k].apps]]))])>>

-----------------------------------------------------------------------------
(* Control thread: main (main.rs:75-152).                                  *)

Line(text) == [text |-> text]

\* `?` in main: the error becomes the process's terminal error
Fail(e) ==
    /\ pc' = "exit"
    /\ err' = e
    /\ exitCode' = "failure"

\* std::process::exit(0), or main returning Ok(())
Succeed ==
    /\ pc' = "exit"
    /\ exitCode' = "success"
    /\ UNCHANGED err

\* a cliclack call followed by `?`: the terminal write may fail
TermError(call) == [kind |-> "Term", call |-> call]

Init ==
    /\ configs \in ConfigLists
    /\ examples \in Filters
    /\ NamesMatter(examples) \/ \A k \in 1..Len(configs) : configs[k].name = <<"a">>
    /\ fs = TreeHolding(configs)
    /\ stack = <<>>
    /\ visited = <<[node |-> 1, as |-> "descriptor"]>>
    /\ pc = "check_configs"
    /\ selected = <<>>
    /\ selPos = 1
    /\ appIdx = 0
    /\ children = <<>>
    /\ waitPos = 1
    /\ procs = <<>>
    /\ slept = <<>>
    /\ failures = <<>>
    /\ answers = <<>>
    /\ out = <<>>
    /\ err = NoError
    /\ exitCode = "running"

\* main.rs:83-85
CheckConfigs_unchecked ==
    /\ pc = "check_configs"
    /\ pc' = "select"
    /\ UNCHANGED <<fs, stack, visited,
                   configs, examples, selected, selPos, appIdx, children,
                   waitPos, procs, slept, failures, answers, out, err,
                   exitCode>>

CheckConfigs ==
    /\ pc = "check_configs"
    /\ IF configs = <<>>
       THEN Fail([kind |-> "NoDescriptors"])
       ELSE pc' = "select" /\ UNCHANGED <<err, exitCode>>
    /\ UNCHANGED <<fs, stack, visited,
                   configs, examples, selected, selPos, appIdx, children,
                   waitPos, procs, slept, failures, answers, out>>

\* `if let Some(examples_str) = args.examples` (main.rs:87)
NonInteractive_allOnly == examples.some /\ IsAll(examples.val)

NonInteractive == examples.some

\* main.rs:87-116
SelectFilter ==
    /\ pc = "select"
    /\ NonInteractive
    /\ LET r == FilterSelect(configs, examples.val)
       IN  IF r.ok
           THEN /\ selected' = r.selected
                /\ out' = Append(out, r.line)
                /\ pc' = "run_loop"
                /\ UNCHANGED <<err, exitCode>>
           ELSE /\ Fail(r.error)
                /\ UNCHANGED <<selected, out>>
    /\ UNCHANGED <<fs, stack, visited,
                   configs, examples, selPos, appIdx, children, waitPos,
                   procs, slept, failures, answers>>

\* print_banner(); intro(..)?  (main.rs:119-120)
Intro ==
    /\ pc = "select"
    /\ ~NonInteractive
    /\ \E ok \in BOOLEAN :
          IF ok
          THEN /\ out' = out \o <<Line("banner"), Line("intro")>>
               /\ pc' = "confirm"
               /\ UNCHANGED <<err, exitCode>>
          ELSE /\ out' = Append(out, Line("banner"))
               /\ Fail(TermError("intro"))
    /\ UNCHANGED <<fs, stack, visited,
                   configs, examples, selected, selPos, appIdx, children,
                   waitPos, procs, slept, failures, answers>>

\* `if !result { outro(..)?; std::process::exit(0); }` (main.rs:68-71);
\* ok: whether the farewell is written
OnDecline_fallThrough(ok) ==
    /\ out' = out \o <<Line("confirm"), Line("clear_screen")>>
    /\ pc' = "multiselect"
    /\ UNCHANGED <<err, exitCode>>

OnDecline(ok) ==
    IF ok
    THEN /\ out' = out \o <<Line("confirm"), Line("outro: goodbye")>>
         /\ Succeed
    ELSE /\ out' = Append(out, Line("confirm"))
         /\ Fail(TermError("outro"))

\* pause_for_enter()?; clear_screen()?  (main.rs:64-73, 121-123)
\* reply: what the operator answers, "cancel" making interact() fail;
\* ok: whether the terminal write that follows the answer succeeds
Confirm ==
    /\ pc = "confirm"
    /\ \E reply \in {"yes", "no", "cancel"}, ok \in BOOLEAN :
          /\ answers' = Append(answers, [prompt |-> "confirm", reply |-> reply,
                                         ticked |-> {}])
          /\ CASE reply = "cancel" ->
                    /\ ok
                    /\ out' = Append(out, Line("confirm"))
                    /\ Fail(TermError("confirm"))
               [] reply = "no" -> OnDecline(ok)
               [] reply = "yes" ->
                    IF ok
                    THEN /\ out' = out \o <<Line("confirm"), Line("clear_screen")>>
                         /\ pc' = "multiselect"
                         /\ UNCHANGED <<err, exitCode>>
                    ELSE /\ out' = Append(out, Line("confirm"))
                         /\ Fail(TermError("clear_screen"))
    /\ UNCHANGED <<fs, stack, visited,
                   configs, examples, selected, selPos, appIdx, children,
                   waitPos, procs, slept, failures>>

\* the items the operator ticked, in the order of the option list
RECURSIVE Ticked(_, _, _)
Ticked(n, S, i) ==
    IF i >= n THEN <<>>
    ELSE (IF i \in S THEN <<i>> ELSE <<>>) \o Ticked(n, S, i + 1)

\* `if selected.is_empty() { outro(..)?; return Ok(()); }` (main.rs:137-140)
EmptySelection(sel) == sel = <<>>

\* main.rs:126-143
\* S: the options ticked; reply "cancel" making interact() fail;
\* ok: whether the farewell is written
MultiSelect ==
    /\ pc = "multiselect"
    /\ \E S \in SUBSET (0..(Len(configs) - 1)), reply \in {"enter", "cancel"},
          ok \in BOOLEAN :
          LET sel == Ticked(Len(configs), S, 0)
              prompt == [text |-> "multiselect", options |-> Names(configs)]
          IN  /\ answers' = Append(answers, [prompt |-> "multiselect",
                                             reply |-> reply, ticked |-> S])
              /\ IF reply = "cancel"
                 THEN /\ ok
                      /\ out' = Append(out, prompt)
                      /\ selected' = selected
                      /\ Fail(TermError("multiselect"))
                 ELSE IF EmptySelection(sel)
                 THEN /\ selected' = selected
                      /\ IF ok
                         THEN /\ out' = out \o <<prompt, Line("outro: none selected")>>
                              /\ Succeed
                         ELSE /\ out' = Append(out, prompt)
                              /\ Fail(TermError("outro"))
                 ELSE /\ ok
                      /\ out' = Append(out, prompt)
                      /\ selected' = sel
                      /\ pc' = "run_loop"
                      /\ UNCHANGED <<err, exitCode>>
    /\ UNCHANGED <<fs, stack, visited,
                   configs, examples, selPos, appIdx, children, waitPos,
                   procs, slept, failures>>

\* the config of the current run_score call: &configs[index]
CurIndex == selected[selPos]
Cur == configs[CurIndex + 1]

\* `run_score(&configs[index])?` returning Err (main.rs:146)
RunScoreErr_ignored(e) ==
    /\ pc' = "run_loop"
    /\ selPos' = selPos + 1
    /\ UNCHANGED <<err, exitCode>>

RunScoreErr(e) ==
    /\ Fail(e)
    /\ UNCHANGED selPos

\* `for index in selected { run_score(..)?; }` and the first lines of
\* run_score (main.rs:145-146, 193-199)
RunStart ==
    /\ pc = "run_loop"
    /\ selPos <= Len(selected)
    /\ out' = out \o <<[text |-> "Running example", name |-> Cur.name],
                       [text |-> "Starting example", name |-> Cur.name]>>
    /\ children' = <<>>
    /\ appIdx' = 0
    /\ waitPos' = 1
    /\ pc' = IF Cur.apps = <<>> THEN "wait" ELSE "delay"
    /\ UNCHANGED <<fs, stack, visited,
                   configs, examples, selected, selPos, procs, slept, failures,
                   answers, err, exitCode>>

\* `if let Some(delay_secs) = app.delay { if delay_secs > 0 {`
\* (main.rs:203-204)
MustSleep_always(app) == app.delay.some

MustSleep(app) == app.delay.some /\ app.delay.val > 0

\* main.rs:200-213
Delay ==
    /\ pc = "delay"
    /\ LET app == Cur.apps[appIdx + 1]
       IN  IF MustSleep(app)
           THEN /\ out' = Append(out, [text |-> "App waiting", app |-> appIdx + 1,
                                       secs |-> app.delay.val])
                /\ slept' = Append(slept, [run |-> selPos, app |-> appIdx + 1,
                                           secs |-> app.delay.val,
                                           spawned |-> Len(procs)])
           ELSE UNCHANGED <<out, slept>>
    /\ pc' = "spawn"
    /\ UNCHANGED <<fs, stack, visited,
                   configs, examples, selected, selPos, appIdx, children,
                   waitPos, procs, failures, answers, err, exitCode>>

\* the context of a failed spawn (main.rs:226)
SpawnError_zeroBased(i, app) == [kind |-> "Spawn", index |-> i, path |-> app.path]

SpawnError(i, app) == [kind |-> "Spawn", index |-> i + 1, path |-> app.path]

\* where the spawn loop goes after a spawn failure: `?` leaves run_score
\* (main.rs:224-226)
OnSpawnFailure_continue(e) ==
    /\ appIdx' = appIdx + 1
    /\ pc' = IF appIdx + 1 < Len(Cur.apps) THEN "delay" ELSE "wait"
    /\ UNCHANGED <<selPos, err, exitCode>>

OnSpawnFailure(e) ==
    /\ RunScoreErr(e)
    /\ UNCHANGED appIdx

\* where the spawn loop goes after spawning app i (0-based): to the next
\* app while there is one, and only then to the wait loop (main.rs:200, 231)
AfterSpawn_waitAtOnce(i) == "wait"

AfterSpawn(i) == IF i + 1 < Len(Cur.apps) THEN "delay" ELSE "wait"

\* main.rs:215-230; ok: whether Command::spawn succeeds
Spawn ==
    /\ pc = "spawn"
    /\ LET app == Cur.apps[appIdx + 1]
           starting == [text |-> "App starting", app |-> appIdx + 1,
                        path |-> app.path]
       IN  \E ok \in BOOLEAN :
              IF ok
              THEN /\ procs' = Append(procs,
                          [run |-> selPos, ex |-> CurIndex, app |-> appIdx + 1,
                           path |-> app.path, state |-> "running",
                           reaped |-> FALSE, waits |-> 0])
                   /\ out' = out \o <<starting,
                                      [text |-> "App spawned", app |-> appIdx + 1,
                                       path |-> app.path]>>
                   /\ children' = Append(children,
                          [index |-> appIdx + 1, path |-> app.path,
                           child |-> Len(procs) + 1])
                   /\ appIdx' = appIdx + 1
                   /\ pc' = AfterSpawn(appIdx)
                   /\ UNCHANGED <<selPos, failures, err, exitCode>>
              ELSE /\ out' = Append(out, starting)
                   /\ failures' = Append(failures,
                          [call |-> "spawn", run |-> selPos, app |-> appIdx + 1])
                   /\ OnSpawnFailure(SpawnError(appIdx, app))
                   /\ UNCHANGED <<procs, children>>
    /\ UNCHANGED <<fs, stack, visited,
                   configs, examples, selected, waitPos, slept, answers>>

\* a child process ends on its own, with a success or a failure status
ChildExit(p) ==
    /\ procs[p].state = "running"
    /\ \E st \in {"exited_ok", "exited_fail"} :
          procs' = [procs EXCEPT ![p].state = st]
    /\ UNCHANGED <<fs, stack, visited,
                   configs, examples, pc, selected, selPos, appIdx, children,
                   waitPos, slept, failures, answers, out, err, exitCode>>

\* `if !status.success() { /* bail! commented out */ }` (main.rs:239-241):
\* whether a child's exit status makes run_score fail
StatusFails_bail(state) == state = "exited_fail"

StatusFails(state) == FALSE

\* the children the wait loop visits: `for (i, path, mut child) in children`
\* (main.rs:234)
HasNextChild_none == FALSE

HasNextChild == waitPos <= Len(children)

\* where the wait loop goes after a failed wait: `?` leaves run_score
\* (main.rs:235-237)
OnWaitFailure_continue(e) ==
    /\ waitPos' = waitPos + 1
    /\ UNCHANGED <<pc, selPos, err, exitCode>>

OnWaitFailure(e) ==
    /\ RunScoreErr(e)
    /\ UNCHANGED waitPos

\* Child::wait returns a status only once the child has ended: no timeout
\* (main.rs:235-236)
ChildEnded_timeout(p) == TRUE

ChildEnded(p) == procs[p].state # "running"

\* main.rs:234-244; the wait blocks until the child has ended, or fails
Wait ==
    /\ pc = "wait"
    /\ HasNextChild
    /\ LET c == children[waitPos]
       IN  \E ok \in BOOLEAN :
              IF ~ok
              THEN /\ failures' = Append(failures,
                          [call |-> "wait", run |-> selPos, app |-> c.index])
                   /\ OnWaitFailure([kind |-> "Wait", index |-> c.index,
                                     path |-> c.path])
                   /\ UNCHANGED <<procs, out>>
              ELSE /\ ChildEnded(c.child)
                   /\ procs' = [procs EXCEPT ![c.child].reaped = TRUE,
                                             ![c.child].waits = @ + 1]
                   /\ UNCHANGED failures
                   /\ IF StatusFails(procs[c.child].state)
                      THEN /\ RunScoreErr([kind |-> "Status", index |-> c.index,
                                           path |-> c.path])
                           /\ UNCHANGED <<out, waitPos>>
                      ELSE /\ out' = Append(out, [text |-> "App finished",
                                                  app |-> c.index, path |-> c.path])
                           /\ waitPos' = waitPos + 1
                           /\ UNCHANGED <<pc, selPos, err, exitCode>>
    /\ UNCHANGED <<fs, stack, visited,
                   configs, examples, selected, appIdx, children, slept,
                   answers>>

\* main.rs:246-247 and the return to main's loop
RunEnd ==
    /\ pc = "wait"
    /\ ~HasNextChild
    /\ out' = Append(out, [text |-> "Example finished", name |-> Cur.name])
    /\ selPos' = selPos + 1
    /\ pc' = "run_loop"
    /\ UNCHANGED <<fs, stack, visited,
                   configs, examples, selected, appIdx, children, waitPos,
                   procs, slept, failures, answers, err, exitCode>>

\* outro("All done!")?; Ok(())  (main.rs:149-151)
AllDone ==
    /\ pc = "run_loop"
    /\ selPos > Len(selected)
    /\ \E ok \in BOOLEAN :
          IF ok
          THEN out' = Append(out, Line("outro: all done")) /\ Succeed
          ELSE UNCHANGED out /\ Fail(TermError("outro"))
    /\ UNCHANGED <<fs, stack, visited,
                   configs, examples, selected, selPos, appIdx, children,
                   waitPos, procs, slept, failures, answers>>

Next ==
    \/ CheckConfigs
    \/ SelectFilter
    \/ Intro
    \/ Confirm
    \/ MultiSelect
    \/ RunStart
    \/ Delay
    \/ Spawn
    \/ \E p \in 1..Len(procs) : ChildExit(p)
    \/ Wait
    \/ RunEnd
    \/ AllDone

Spec == Init /\ [][Next]_vars

\* The control thread keeps running, an operator may never answer, a wait
\* returns once its child has ended, every delay elapses and every child
\* ends at some time.
WaitReturns == Wait /\ failures' = failures

ChildExits(p) == p \in 1..Len(procs) /\ ChildExit(p)

Fairness ==
    /\ WF_vars(CheckConfigs)
    /\ WF_vars(SelectFilter)
    /\ WF_vars(Intro)
    /\ WF_vars(RunStart)
    /\ WF_vars(Delay)
    /\ WF_vars(Spawn)
    /\ WF_vars(WaitReturns)
    /\ WF_vars(RunEnd)
    /\ WF_vars(AllDone)
    /\ \A p \in 1..(MaxExamples * MaxApps) : WF_vars(ChildExits(p))

SpecFair == Spec /\ Fairness

-----------------------------------------------------------------------------
(* Loader: visit_dir (main.rs:154-184), called by main (main.rs:80-81).    *)

\* the innermost active call of visit_dir: `dir` is its directory, `pos`
\* the position of its loop in the entries, 0 before read_dir is called
Top == stack[Len(stack)]

\* the loop of the innermost call moves to its next entry
Advance == [stack EXCEPT ![Len(stack)].pos = @ + 1]

Visit(node, as) == Append(visited, [node |-> node, as |-> as])

\* `?` in visit_dir and at its call sites (main.rs:81, 155, 156, 164, 169-178):
\* the error ends every active call and then main
OnScanFailure_skip(e) ==
    /\ stack' = IF Top.pos = 0
                THEN SubSeq(stack, 1, Len(stack) - 1)
                ELSE Advance
    /\ pc' = IF stack' = <<>> THEN "check_configs" ELSE "scan"
    /\ UNCHANGED <<err, exitCode>>

OnScanFailure(e) ==
    /\ stack' = <<>>
    /\ Fail(e)

LoadError(context, node) == [kind |-> "Load", context |-> context, node |-> node]

\* fs::read_dir(dir).with_context(..)?  (main.rs:155)
ReadDir ==
    /\ pc = "scan"
    /\ stack # <<>>
    /\ Top.pos = 0
    /\ \E ok \in BOOLEAN :
          IF ok
          THEN /\ stack' = Advance
               /\ UNCHANGED <<failures, pc, err, exitCode>>
          ELSE /\ failures' = Append(failures,
                                 [call |-> "read_dir", node |-> Top.dir])
               /\ OnScanFailure(LoadError("Failed to read directory", Top.dir))
    /\ UNCHANGED <<fs, visited, configs, examples, selected, selPos, appIdx,
                   children, waitPos, procs, slept, answers, out>>

\* the loop of visit_dir is at an entry of its directory
AtEntry ==
    /\ pc = "scan"
    /\ stack # <<>>
    /\ Top.pos \in 1..Len(ReadDirOf(fs, Top.dir))

\* the index in fs of that entry
CurEntry == ReadDirOf(fs, Top.dir)[Top.pos]

\* let entry = entry?;  (main.rs:156): reading the next entry fails
EntryFails ==
    /\ AtEntry
    /\ failures' = Append(failures, [call |-> "next_entry", node |-> Top.dir])
    /\ OnScanFailure(LoadError("entry", Top.dir))
    /\ UNCHANGED <<fs, visited, configs, examples, selected, selPos, appIdx,
                   children, waitPos, procs, slept, answers, out>>

\* if path.is_symlink() { continue; }  (main.rs:159-161)
SkipSymlink ==
    /\ AtEntry
    /\ IsSymlink(fs[CurEntry])
    /\ visited' = Visit(CurEntry, "symlink")
    /\ stack' = Advance
    /\ UNCHANGED <<fs, configs, examples, pc, selected, selPos, appIdx,
                   children, waitPos, procs, slept, failures, answers, out,
                   err, exitCode>>

\* the directory visit_dir(&path, ..) reads: a link to a directory leads to
\* the root
DirOf(node) == IF fs[node].kind = "symlink" THEN 0 ELSE node

\* if path.is_dir() { visit_dir(&path, configs)?; continue; }  (main.rs:163-166)
VisitSubdir ==
    /\ AtEntry
    /\ ~IsSymlink(fs[CurEntry])
    /\ IsDir(fs[CurEntry])
    /\ visited' = Visit(CurEntry, "dir")
    /\ stack' = Append(Advance, [dir |-> DirOf(CurEntry), pos |-> 0])
    /\ UNCHANGED <<fs, configs, examples, pc, selected, selPos, appIdx,
                   children, waitPos, procs, slept, failures, answers, out,
                   err, exitCode>>

\* if is_score_file(&path) { read, parse, push or extend }  (main.rs:168-180)
ReadScoreFile ==
    /\ AtEntry
    /\ LET e == fs[CurEntry]
       IN  /\ ~IsSymlink(e)
           /\ ~IsDir(e)
           /\ IsScoreFile(e)
           /\ visited' = Visit(CurEntry, "descriptor")
           /\ \E ok \in BOOLEAN :
                 IF ok /\ e.content.some
                 THEN LET r == Parse(e.content.val)
                      IN  /\ IF r.ok
                             THEN /\ configs' = configs \o r.found
                                  /\ stack' = Advance
                                  /\ UNCHANGED <<pc, err, exitCode>>
                             ELSE /\ OnScanFailure(LoadError(r.error, CurEntry))
                                  /\ UNCHANGED configs
                          /\ UNCHANGED failures
                 ELSE /\ failures' = Append(failures,
                             [call |-> "read_to_string", node |-> CurEntry])
                      /\ OnScanFailure(LoadError("Failed reading", CurEntry))
                      /\ UNCHANGED configs
    /\ UNCHANGED <<fs, examples, selected, selPos, appIdx, children, waitPos,
                   procs, slept, answers, out>>

\* any other entry: the loop body does nothing (main.rs:168, 181)
IgnoreEntry ==
    /\ AtEntry
    /\ LET e == fs[CurEntry]
       IN  /\ ~IsSymlink(e)
           /\ ~IsDir(e)
           /\ ~IsScoreFile(e)
    /\ visited' = Visit(CurEntry, "other")
    /\ stack' = Advance
    /\ UNCHANGED <<fs, configs, examples, pc, selected, selPos, appIdx,
                   children, waitPos, procs, slept, failures, answers, out,
                   err, exitCode>>

\* Ok(()) of visit_dir (main.rs:183); the outermost call returns to main
VisitDirReturns ==
    /\ pc = "scan"
    /\ stack # <<>>
    /\ Top.pos > Len(ReadDirOf(fs, Top.dir))
    /\ stack' = SubSeq(stack, 1, Len(stack) - 1)
    /\ pc' = IF stack' = <<>> THEN "check_configs" ELSE "scan"
    /\ UNCHANGED <<fs, visited, configs, examples, selected, selPos, appIdx,
                   children, waitPos, procs, slept, failures, answers, out,
                   err, exitCode>>

\* main before the call of visit_dir (main.rs:76-80)
InitScan ==
    /\ \E n \in 0..MaxEntries :
          \E parents \in ParentMaps(n), kinds \in [1..n -> EntryKinds] :
              fs = Tree(parents, kinds)
    /\ WellFormed(fs)
    /\ stack = <<[dir |-> 0, pos |-> 0]>>
    /\ visited = <<>>
    /\ configs = <<>>
    /\ examples = None
    /\ pc = "scan"
    /\ selected = <<>>
    /\ selPos = 1
    /\ appIdx = 0
    /\ children = <<>>
    /\ waitPos = 1
    /\ procs = <<>>
    /\ slept = <<>>
    /\ failures = <<>>
    /\ answers = <<>>
    /\ out = <<>>
    /\ err = NoError
    /\ exitCode = "running"

\* main from its start: any filter, and a tree that holds at most
\* MaxExamples examples
InitLoad ==
    /\ \E n \in 0..MaxEntries :
          \E parents \in ParentMaps(n), kinds \in [1..n -> LoadKinds] :
              fs = Tree(parents, kinds)
    /\ WellFormed(fs)
    /\ Described(fs) <= MaxExamples
    /\ stack = <<[dir |-> 0, pos |-> 0]>>
    /\ visited = <<>>
    /\ configs = <<>>
    /\ examples \in Filters
    /\ pc = "scan"
    /\ selected = <<>>
    /\ selPos = 1
    /\ appIdx = 0
    /\ children = <<>>
    /\ waitPos = 1
    /\ procs = <<>>
    /\ slept = <<>>
    /\ failures = <<>>
    /\ answers = <<>>
    /\ out = <<>>
    /\ err = NoError
    /\ exitCode = "running"

NextScan ==
    \/ ReadDir
    \/ EntryFails
    \/ SkipSymlink
    \/ VisitSubdir
    \/ ReadScoreFile
    \/ IgnoreEntry
    \/ VisitDirReturns

SpecScan == InitScan /\ [][NextScan]_vars

NextLoad ==
    \/ ReadDir
    \/ EntryFails
    \/ SkipSymlink
    \/ VisitSubdir
    \/ ReadScoreFile
    \/ IgnoreEntry
    \/ VisitDirReturns
    \/ CheckConfigs
    \/ SelectFilter
    \/ Intro
    \/ Confirm
    \/ MultiSelect
    \/ RunStart
    \/ Delay
    \/ Spawn
    \/ \E p \in 1..Len(procs) : ChildExit(p)
    \/ Wait
    \/ RunEnd
    \/ AllDone

SpecLoad == InitLoad /\ [][NextLoad]_vars

\* the control thread keeps running: every step of the scan is taken at some
\* time
SpecLoadFair == SpecLoad /\ WF_vars(NextScan)

-----------------------------------------------------------------------------
(* The selector over every filter string: discovery has produced any list  *)
(* of examples (their apps play no part in the selection) and the filter   *)
(* is any string of FilterChars up to MaxFilterLen.                        *)

FilterChars == {"a", "A", "l", "L", ",", " "}

SelectNames == {<<"a">>, <<"A">>, <<" ", "a">>, <<>>}

InitSelect ==
    /\ configs \in SeqsUpTo([name : SelectNames, apps : {<<>>}], MaxExamples)
    /\ examples \in {Some(f) : f \in SeqsUpTo(FilterChars, MaxFilterLen)}
    /\ fs = TreeHolding(configs)
    /\ stack = <<>>
    /\ visited = <<[node |-> 1, as |-> "descriptor"]>>
    /\ pc = "check_configs"
    /\ selected = <<>>
    /\ selPos = 1
    /\ appIdx = 0
    /\ children = <<>>
    /\ waitPos = 1
    /\ procs = <<>>
    /\ slept = <<>>
    /\ failures = <<>>
    /\ answers = <<>>
    /\ out = <<>>
    /\ err = NoError
    /\ exitCode = "running"

NextSelect ==
    \/ CheckConfigs
    \/ SelectFilter

SpecSelect == InitSelect /\ [][NextSelect]_vars

-----------------------------------------------------------------------------
(* Properties of the selector.                                             *)

\* the selection step has been taken (configs was not empty)
SelectionMade == pc = "run_loop" \/ (pc = "exit" /\ err.kind # "NoDescriptors")

\* f is "all" in some letter case
SpellsAll(f) ==
    /\ Len(f) = 3
    /\ f[1] \in {"a", "A"}
    /\ f[2] \in {"l", "L"}
    /\ f[3] \in {"l", "L"}

\* C6: in non-interactive mode with a filter equal to "all" in any letter
\* case, the selection is exactly the indices 0..N-1 of all N discovered
\* examples, in discovery order, and as many as were discovered.
C6_AllSelectsEveryExample ==
    (examples.some /\ SpellsAll(examples.val) /\ SelectionMade) =>
        /\ pc = "run_loop"
        /\ Len(selected) = Len(configs)
        /\ \A k \in 1..Len(configs) : selected[k] = k - 1

C6_Witness ==
    /\ examples = Some(<<"A", "l", "L">>)
    /\ Len(configs) = MaxExamples
    /\ pc = "run_loop"
    /\ Len(selected) = MaxExamples

\* positions lo..hi of f (hi = lo - 1 for an empty token) are one token of the
\* comma-separated list f: a maximal stretch without a comma
IsTokenSpan(f, lo, hi) ==
    /\ lo <= hi + 1
    /\ lo = 1 \/ f[lo - 1] = ","
    /\ hi = Len(f) \/ f[hi + 1] = ","
    /\ \A k \in lo..hi : f[k] # ","

\* name is some token of f without the token's surrounding whitespace
IsRequested(f, name) ==
    \E lo \in 1..(Len(f) + 1), hi \in 0..Len(f) :
        /\ IsTokenSpan(f, lo, hi)
        /\ \E a \in lo..(hi + 1), b \in (lo - 1)..hi :
              /\ a <= b + 1
              /\ \A k \in lo..(a - 1) : IsWhitespace(f[k])
              /\ \A k \in (b + 1)..hi : IsWhitespace(f[k])
              /\ SubSeq(f, a, b) = name
              /\ name # <<>> =>
                    ~IsWhitespace(name[1]) /\ ~IsWhitespace(name[Len(name)])

\* C7: with a comma-separated name list, the selection is exactly the indices
\* of the discovered examples whose name equals a requested token after
\* trimming the token, in discovery order whatever the order of the request;
\* if no example matches, the selection fails with an error carrying the
\* requested string and every available name, and the process ends there.
C7_NameListSelectsMatches ==
    (examples.some /\ ~SpellsAll(examples.val) /\ SelectionMade) =>
        LET f == examples.val
            matching == {i \in 0..(Len(configs) - 1) :
                            IsRequested(f, configs[i + 1].name)}
        IN  IF matching = {}
            THEN /\ pc = "exit"
                 /\ exitCode = "failure"
                 /\ err.kind = "NoMatch"
                 /\ err.requested = f
                 /\ Len(err.available) = Len(configs)
                 /\ \A k \in 1..Len(configs) : err.available[k] = configs[k].name
                 /\ selected = <<>>
                 /\ procs = <<>>
            ELSE /\ pc = "run_loop"
                 /\ {selected[k] : k \in 1..Len(selected)} = matching
                 /\ \A j, k \in 1..Len(selected) : j < k => selected[j] < selected[k]

\* the request names the second example before the first, with whitespace
C7_Witness ==
    /\ examples = Some(<<"A", ",", " ", "a">>)
    /\ Len(configs) = 2
    /\ configs[1].name = <<"a">>
    /\ configs[2].name = <<"A">>
    /\ selected = <<0, 1>>

\* a request that matches nothing
C7_WitnessNoMatch ==
    /\ examples = Some(<<"l">>)
    /\ err.kind = "NoMatch"

\* C8: for every discovered list and every filter string, also one that
\* repeats a name and a list in which examples share a name, the selection
\* holds no index twice and only indices within 0..N-1.
C8_SelectionDistinctInRange ==
    /\ \A k \in 1..Len(selected) : selected[k] \in 0..(Len(configs) - 1)
    /\ \A j, k \in 1..Len(selected) : j # k => selected[j] # selected[k]

\* the request repeats a name that two examples share
C8_Witness ==
    /\ examples = Some(<<"a", ",", "a">>)
    /\ Len(configs) = 2
    /\ configs[1].name = <<"a">>
    /\ configs[2].name = <<"a">>
    /\ selected = <<0, 1>>

-----------------------------------------------------------------------------
(* Properties of the orchestrator and the runner.                          *)

ProcsOfRun(r) == {p \in 1..Len(procs) : procs[p].run = r}

\* the apps of the example the r-th runner call is given
AppsOfRun(r) == configs[selected[r] + 1].apps

\* some spawn or wait call of a runner call has failed
RunnerFailed == failures # <<>>

\* C1: the selected examples are run one after another in selection order,
\* and once a spawn or a wait of one example's runner call has failed, no app
\* of a later selected example is spawned and the process ends with a
\* non-zero status.
C1_SequentialFailFast ==
    /\ \A p \in 1..Len(procs) :
          /\ procs[p].run \in 1..Len(selected)
          /\ procs[p].ex = selected[procs[p].run]
    /\ \A p, q \in 1..Len(procs) : p < q => procs[p].run <= procs[q].run
    /\ RunnerFailed =>
          /\ Len(failures) = 1
          /\ pc = "exit"
          /\ exitCode = "failure"
          /\ err.kind \in {"Spawn", "Wait"}
          /\ \A p \in 1..Len(procs) : procs[p].run <= failures[1].run

\* the first of two selected examples has failed
C1_Witness ==
    /\ Len(selected) = 2
    /\ RunnerFailed
    /\ failures[1].run = 1
    /\ AppsOfRun(2) # <<>>
    /\ pc = "exit"

\* C2: no app of the next selected example is spawned until every child
\* spawned for the previous examples has been waited on.
C2_NextExampleAfterAllWaits ==
    \A p, q \in 1..Len(procs) :
        procs[p].run < procs[q].run => procs[p].reaped

C2_Witness ==
    \E p, q \in 1..Len(procs) :
        /\ procs[p].run = 1
        /\ procs[q].run = 2
        /\ procs[p].state = "exited_fail"

\* C3: within one example the apps are spawned in list order, and if the
\* spawn of the app at 1-based index k fails, no app of the example with an
\* index of k or more is spawned and the error names k and that app's path.
C3_SpawnFailureStopsExample ==
    /\ \A r \in 1..Len(selected) :
          /\ \A p \in ProcsOfRun(r) :
                /\ procs[p].app \in 1..Len(AppsOfRun(r))
                /\ procs[p].path = AppsOfRun(r)[procs[p].app].path
                /\ \A k \in 1..(procs[p].app - 1) :
                      \E q \in ProcsOfRun(r) : q < p /\ procs[q].app = k
          /\ \A p, q \in ProcsOfRun(r) : p < q => procs[p].app < procs[q].app
    /\ \A f \in 1..Len(failures) :
          failures[f].call = "spawn" =>
              /\ \A p \in ProcsOfRun(failures[f].run) :
                    procs[p].app < failures[f].app
              /\ pc = "exit"
              /\ err.kind = "Spawn"
              /\ err.index = failures[f].app
              /\ err.path = AppsOfRun(failures[f].run)[failures[f].app].path

\* the first app of an example with several apps cannot be spawned
C3_Witness ==
    /\ RunnerFailed
    /\ failures[1].call = "spawn"
    /\ failures[1].app = 1
    /\ Len(AppsOfRun(failures[1].run)) > 1

\* the r-th runner call has returned, with or without an error
RunReturned(r) == r < selPos \/ (pc = "exit" /\ r = selPos)

\* C4 as claimed: once the spawn loop has ended, having spawned every app
\* or having aborted on a spawn failure, every spawned child of the example
\* is waited on before the runner returns (unless a wait itself fails).
C4_WaitsAlsoAfterSpawnFailure ==
    \A r \in 1..Len(selected) :
        (RunReturned(r) /\ \A f \in 1..Len(failures) : failures[f].call # "wait")
            => \A p \in ProcsOfRun(r) : procs[p].reaped

\* C4 as amended: a child is waited on only after every app of its example
\* has been spawned; the children are waited on in spawn order whatever
\* their exit status; a runner call that returns success has waited on every
\* child; and a runner call whose spawn loop aborts on a spawn failure
\* returns at once, without waiting on any child it has spawned.
C4_WaitsOnlyAfterFullSpawn ==
    \A r \in 1..Len(selected) :
        /\ \A p \in ProcsOfRun(r) :
              procs[p].reaped =>
                  /\ Cardinality(ProcsOfRun(r)) = Len(AppsOfRun(r))
                  /\ \A q \in ProcsOfRun(r) : q < p => procs[q].reaped
        /\ r < selPos =>
              /\ Cardinality(ProcsOfRun(r)) = Len(AppsOfRun(r))
              /\ \A p \in ProcsOfRun(r) : procs[p].reaped
        /\ \A f \in 1..Len(failures) :
              (failures[f].call = "spawn" /\ failures[f].run = r) =>
                  \A p \in ProcsOfRun(r) : ~procs[p].reaped

\* the second spawn fails: the first child has ended and is never waited on
C4_Witness ==
    /\ pc = "exit"
    /\ RunnerFailed
    /\ failures[1].call = "spawn"
    /\ failures[1].app = 2
    /\ \E p \in ProcsOfRun(failures[1].run) :
          procs[p].state = "exited_fail" /\ ~procs[p].reaped

\* every app was spawned and every child waited on, one of them having failed
C4_WitnessAllWaited ==
    /\ pc = "exit"
    /\ Cardinality(ProcsOfRun(1)) = MaxApps
    /\ \A p \in ProcsOfRun(1) : procs[p].reaped
    /\ procs[1].state = "exited_fail"

\* C5: a child that exits with a failure status changes nothing: unless a
\* spawn or a wait fails, the runner waits on every child of the example and
\* returns success, every selected example is run, and the exit status is
\* what it is when every child succeeds: the process fails only for a
\* reason other than a child's status.
C5_ChildStatusIgnored ==
    /\ err.kind \in {"None", "NoDescriptors", "NoMatch", "Spawn", "Wait", "Term"}
    /\ err.kind \in {"Spawn", "Wait"} <=> RunnerFailed
    /\ (pc = "exit" /\ err.kind \notin {"Term", "NoDescriptors", "NoMatch"}
           /\ ~RunnerFailed /\ selected # <<>>) =>
          /\ selPos = Len(selected) + 1
          /\ exitCode = "success"
          /\ \A r \in 1..Len(selected) :
                /\ Cardinality(ProcsOfRun(r)) = Len(AppsOfRun(r))
                /\ \A p \in ProcsOfRun(r) : procs[p].reaped
    /\ \A p \in 1..Len(procs) :
          (procs[p].reaped /\ procs[p].state = "exited_fail" /\ ~RunnerFailed) =>
              \/ pc \in {"wait", "run_loop", "delay", "spawn"}
              \/ pc = "exit" /\ selPos = Len(selected) + 1

\* the first child of the first example fails, its sibling and the next
\* example still run, and the process ends with success
C5_Witness ==
    /\ pc = "exit"
    /\ exitCode = "success"
    /\ Len(procs) > MaxApps
    /\ procs[1].state = "exited_fail"
    /\ procs[1].reaped
    /\ procs[Len(procs)].run = 2

InteractiveTexts ==
    {"banner", "intro", "confirm", "clear_screen", "multiselect",
     "outro: goodbye", "outro: none selected"}

\* C9: when the filter option is given, the banner, the confirmation and the
\* multi-select never occur and the control thread never waits for the
\* operator.
C9_FilterBypassesInteraction ==
    examples.some =>
        /\ pc \notin {"confirm", "multiselect"}
        /\ answers = <<>>
        /\ \A k \in 1..Len(out) : out[k].text \notin InteractiveTexts

\* a name-list filter has run its examples to the end
C9_Witness ==
    /\ examples.some
    /\ ~SpellsAll(examples.val)
    /\ pc = "exit"
    /\ exitCode = "success"
    /\ procs # <<>>

\* the operator has declined the confirmation gate
HasDeclined ==
    \E k \in 1..Len(answers) :
        answers[k].prompt = "confirm" /\ answers[k].reply = "no"

\* the operator has confirmed the multi-select with nothing ticked
HasConfirmedEmpty ==
    \E k \in 1..Len(answers) :
        /\ answers[k].prompt = "multiselect"
        /\ answers[k].reply = "enter"
        /\ answers[k].ticked = {}

MultiSelectShown == \E k \in 1..Len(out) : out[k].text = "multiselect"

\* C10 as claimed: declining the gate or confirming an empty subset ends
\* the process with success status and no child spawned, and declining ends
\* it before the multi-select is presented.
C10_VoluntaryExitSucceeds ==
    /\ (HasDeclined \/ HasConfirmedEmpty) =>
          pc = "exit" /\ exitCode = "success" /\ procs = <<>>
    /\ HasDeclined => ~MultiSelectShown

\* C10 as amended: declining the gate or confirming an empty subset ends
\* the process with no child spawned, declining before the multi-select is
\* presented; the status is success when the farewell is written, and
\* non-zero, with the outro's error, when writing the farewell fails.
C10_VoluntaryExitSpawnsNothing ==
    /\ (HasDeclined \/ HasConfirmedEmpty) =>
          /\ pc = "exit"
          /\ procs = <<>>
          /\ selected = <<>>
          /\ \/ exitCode = "success" /\ err.kind = "None"
                /\ out[Len(out)].text =
                      (IF HasDeclined THEN "outro: goodbye"
                       ELSE "outro: none selected")
             \/ exitCode = "failure" /\ err = TermError("outro")
                /\ \A k \in 1..Len(out) :
                      out[k].text \notin {"outro: goodbye", "outro: none selected"}
    /\ HasDeclined => ~MultiSelectShown /\ Len(answers) = 1

C10_Witness ==
    /\ HasDeclined
    /\ exitCode = "success"

C10_WitnessEmpty ==
    /\ HasConfirmedEmpty
    /\ exitCode = "success"
    /\ MultiSelectShown

-----------------------------------------------------------------------------
(* Properties of the runner's delays and waits.                            *)

\* the sleeps made for app i of the r-th runner call
SleepsFor(r, i) == {k \in 1..Len(slept) : slept[k].run = r /\ slept[k].app = i}

\* the runner has come to the spawn of app i of the r-th runner call
ReachedSpawn(r, i) ==
    \/ \E p \in ProcsOfRun(r) : procs[p].app = i
    \/ \E f \in 1..Len(failures) :
          failures[f].call = "spawn" /\ failures[f].run = r /\ failures[f].app = i
    \/ pc = "spawn" /\ selPos = r /\ appIdx + 1 = i

WaitFailures == {f \in 1..Len(failures) : failures[f].call = "wait"}

\* C17: if waiting on the child with index k fails, the remaining waits are
\* aborted: no child of the example with an index above k is waited on, the
\* error names k and the path of that child, and no later selected example
\* is run.
C17_WaitFailureAbortsWaits ==
    \A f \in WaitFailures :
        LET r == failures[f].run
            k == failures[f].app
        IN  /\ pc = "exit"
            /\ exitCode = "failure"
            /\ err.kind = "Wait"
            /\ err.index = k
            /\ err.path = AppsOfRun(r)[k].path
            /\ \A p \in ProcsOfRun(r) :
                  /\ procs[p].app > k => procs[p].waits = 0
                  /\ procs[p].app = k => procs[p].waits = 0
                  /\ procs[p].app < k => procs[p].waits = 1
            /\ \A p \in 1..Len(procs) : procs[p].run <= r
            /\ selPos = r

\* the wait on the first of two children fails in the first of two examples
C17_Witness ==
    /\ WaitFailures # {}
    /\ failures[1].app = 1
    /\ failures[1].run = 1
    /\ Cardinality(ProcsOfRun(1)) = 2
    /\ Len(selected) = 2
    /\ AppsOfRun(2) # <<>>
    /\ procs[2].state = "exited_ok"

\* C18: within one example no child is waited on before the spawn loop has
\* finished: when a wait is made, every app of the example has been spawned,
\* so every spawn of the example comes before its first wait; and each child
\* is waited on at most once.
C18_SpawnsBeforeWaits ==
    /\ \A p \in 1..Len(procs) :
          /\ procs[p].waits <= 1
          /\ procs[p].reaped <=> procs[p].waits = 1
    /\ \A r \in 1..Len(selected) :
          (\/ \E p \in ProcsOfRun(r) : procs[p].waits > 0
           \/ \E f \in WaitFailures : failures[f].run = r
           \/ pc = "wait" /\ selPos = r) =>
             /\ Cardinality(ProcsOfRun(r)) = Len(AppsOfRun(r))
             /\ \A i \in 1..Len(AppsOfRun(r)) :
                   \E p \in ProcsOfRun(r) : procs[p].app = i
    /\ pc \in {"delay", "spawn"} =>
          \A p \in ProcsOfRun(selPos) : procs[p].waits = 0

\* both children of an example are still running when the first wait begins
C18_Witness ==
    /\ pc = "wait"
    /\ waitPos = 1
    /\ Len(children) = MaxApps
    /\ \A p \in ProcsOfRun(selPos) : procs[p].state = "running"

\* the control thread is in a wait on a child that has not ended
BlockedOnRunningChild ==
    /\ pc = "wait"
    /\ waitPos <= Len(children)
    /\ procs[children[waitPos].child].state = "running"

\* C19: no timeout and no cancellation.  When every child ends at some time
\* and every delay elapses, every non-interactive invocation reaches process
\* exit; and while the child being waited on has not ended, the control
\* thread stays in that wait (short of the wait call itself failing): no
\* result of a later child is reported, nothing is spawned and no later
\* example is started.
C19_TerminatesIffChildrenEnd ==
    /\ examples.some => <>(pc = "exit")
    /\ [][BlockedOnRunningChild =>
            \/ failures' # failures
            \/ /\ pc' = "wait"
               /\ waitPos' = waitPos
               /\ selPos' = selPos
               /\ out' = out
               /\ Len(procs') = Len(procs)
               /\ \A p \in 1..Len(procs) : procs'[p].waits = procs[p].waits]_vars

\* the thread waits on a first child still running while the second has ended
C19_Witness ==
    /\ examples.some
    /\ BlockedOnRunningChild
    /\ waitPos = 1
    /\ Len(children) = 2
    /\ procs[children[2].child].state = "exited_ok"
    /\ Len(selected) = 2

-----------------------------------------------------------------------------
(* Partial matches of a name list.                                         *)

\* positions a..b of f (b = a - 1 for an empty name) are a token of f
\* without its surrounding whitespace
IsTrimmedToken(f, a, b) ==
    /\ a <= b + 1
    /\ a <= b => ~IsWhitespace(f[a]) /\ ~IsWhitespace(f[b])
    /\ \E lo \in 1..a, hi \in b..Len(f) :
          /\ IsTokenSpan(f, lo, hi)
          /\ \A k \in lo..(a - 1) : IsWhitespace(f[k])
          /\ \A k \in (b + 1)..hi : IsWhitespace(f[k])

\* the names the request f asks for
RequestedNames(f) ==
    {SubSeq(f, ab[1], ab[2]) :
        ab \in {x \in (1..(Len(f) + 1)) \X (0..Len(f)) : IsTrimmedToken(f, x[1], x[2])}}

\* C20: in name-list mode the no-match error is raised only when no
\* requested token matches any example; when some token matches, tokens
\* that match nothing are ignored without a message, the selection succeeds
\* with the matched examples only, and the run proceeds.
C20_UnmatchedTokensIgnored ==
    (examples.some /\ ~SpellsAll(examples.val) /\ SelectionMade) =>
        LET f == examples.val
            requested == RequestedNames(f)
            matched == {i \in 0..(Len(configs) - 1) :
                           configs[i + 1].name \in requested}
            unmatched == {t \in requested :
                             \A i \in 1..Len(configs) : configs[i].name # t}
        IN  /\ err.kind = "NoMatch" <=> matched = {}
            /\ (matched # {} /\ unmatched # {}) =>
                  /\ pc = "run_loop"
                  /\ exitCode = "running"
                  /\ err.kind = "None"
                  /\ {selected[k] : k \in 1..Len(selected)} = matched
                  /\ Len(selected) = Cardinality(matched)
                  /\ out = <<[text |-> "Running examples", req |-> f]>>

\* "l" names no example, "a" names the second one
C20_Witness ==
    /\ examples = Some(<<"l", ",", "a">>)
    /\ Len(configs) = 2
    /\ configs[1].name = <<"A">>
    /\ configs[2].name = <<"a">>
    /\ selected = <<1>>
    /\ pc = "run_loop"

-----------------------------------------------------------------------------
(* Properties of the loader.                                               *)

\* the calls of the scan that the operating system has failed
ScanFailures ==
    {k \in 1..Len(failures) :
        failures[k].call \in {"read_dir", "next_entry", "read_to_string"}}

\* the name is text and its last pieces spell ".score.json"
NamedAsDescriptor(name) ==
    /\ \A k \in 1..Len(name) : name[k] # InvalidBytes
    /\ Len(name) >= 2
    /\ name[Len(name) - 1] = ".score"
    /\ name[Len(name)] = ".json"

\* a file, no directory and no symbolic link, that is named as a descriptor
IsDescriptorFile(e) ==
    /\ e.kind \notin {"dir", "symlink"}
    /\ NamedAsDescriptor(e.name)

\* C11: when the tree holds no descriptor file (and no directory read
\* fails), the loader returns with no example and main then fails with the
\* "no descriptors" error, in either mode, without any prompt or output, any
\* selection or any child process.
C11_NoDescriptorFileFails ==
    ((\A i \in 1..Len(fs) : ~IsDescriptorFile(fs[i])) /\ ScanFailures = {}) =>
        /\ configs = <<>>
        /\ pc \in {"scan", "check_configs", "exit"}
        /\ pc # "exit" => (exitCode = "running" /\ err = NoError)
        /\ pc = "exit" => (exitCode = "failure" /\ err.kind = "NoDescriptors")
        /\ selected = <<>>
        /\ out = <<>>
        /\ answers = <<>>
        /\ procs = <<>>

\* a tree of a directory named as a descriptor holding a link named as a
\* descriptor and a file named otherwise, in interactive mode
C11_Witness ==
    /\ examples = None
    /\ Len(fs) = 3
    /\ \A i \in 1..Len(fs) : ~IsDescriptorFile(fs[i])
    /\ \E i \in 1..Len(fs) :
          fs[i].kind = "dir" /\ NamedAsDescriptor(fs[i].name)
    /\ \E i \in 1..Len(fs) :
          fs[i].kind = "symlink" /\ fs[i].parent # 0 /\ fs[i].content.some
    /\ \E i \in 1..Len(fs) : fs[i].kind = "file" /\ fs[i].content.some
    /\ Len(visited) = 3
    /\ pc = "exit"
    /\ err.kind = "NoDescriptors"

\* the visits of descriptors whose text has no conversion or cannot be read
ParseFailures ==
    {k \in 1..Len(visited) :
        /\ visited[k].as = "descriptor"
        /\ LET c == fs[visited[k].node].content
           IN  ~c.some \/ ~Parse(c.val).ok}

ScanFailed == ScanFailures # {} \/ ParseFailures # {}

\* C12: once a directory read, a file read or a parse of the scan has failed,
\* every call of visit_dir has ended and the process has ended with a
\* non-zero status; nothing was printed, asked or selected and no child was
\* spawned, whatever earlier files yielded; from then on no entry is visited,
\* no example is added and no further call is made.
C12_FailureAbortsLoad ==
    /\ [](ScanFailed =>
            /\ pc = "exit"
            /\ exitCode = "failure"
            /\ stack = <<>>
            /\ selected = <<>>
            /\ out = <<>>
            /\ answers = <<>>
            /\ procs = <<>>
            /\ Cardinality(ScanFailures) <= 1
            /\ ParseFailures \subseteq {Len(visited)})
    /\ [][ScanFailed => UNCHANGED <<visited, configs, failures>>]_vars

\* the first file yielded examples, the parse of the second failed, the third
\* entry was never looked at; the filter asks for all examples
C12_Witness ==
    /\ examples.some
    /\ IsAll(examples.val)
    /\ Len(fs) = 3
    /\ configs # <<>>
    /\ Len(visited) = 2
    /\ ParseFailures = {2}
    /\ fs[visited[2].node].content.some
    /\ ScanFailures = {}
    /\ pc = "exit"

\* C13: whatever a symbolic link points to, the scan only skips it: it is
\* never read as a descriptor nor entered as a directory, so every active
\* call but the outermost reads a directory of the tree that is no link, no
\* entry is visited twice, and the scan ends.
C13_SymlinksSkippedScanEnds ==
    /\ [](/\ \A k \in 1..Len(visited) :
                fs[visited[k].node].kind = "symlink"
                    => visited[k].as = "symlink"
          /\ \A j \in 1..Len(stack) :
                IF j = 1
                THEN stack[j].dir = 0
                ELSE /\ stack[j].dir \in 1..Len(fs)
                     /\ fs[stack[j].dir].kind = "dir"
          /\ \A j, k \in 1..Len(visited) :
                visited[j].node = visited[k].node => j = k)
    /\ <>(pc # "scan")

\* a directory holding a link to its ancestor, the root, and a link named
\* as a descriptor that points to a descriptor file: the scan has returned
\* to main with no example
C13_Witness ==
    /\ pc = "check_configs"
    /\ configs = <<>>
    /\ Len(fs) = 3
    /\ Len(visited) = 3
    /\ \E i \in 1..Len(fs) :
          /\ fs[i].kind = "symlink"
          /\ fs[i].target = "dir"
          /\ fs[i].parent # 0
    /\ \E i \in 1..Len(fs) :
          /\ fs[i].kind = "symlink"
          /\ fs[i].target = "file"
          /\ NamedAsDescriptor(fs[i].name)
          /\ fs[i].content.some
          /\ Parse(fs[i].content.val).ok

\* C14: an entry is read and parsed as a descriptor exactly when it is a
\* regular file whose name ends with ".score.json"; directories, symbolic
\* links and special files are never parsed, nor are regular files named
\* otherwise.
C14_OnlyRegularFilesParsed ==
    \A k \in 1..Len(visited) :
        LET e == fs[visited[k].node]
        IN  visited[k].as = "descriptor"
                <=> (e.kind = "file" /\ NamedAsDescriptor(e.name))

\* the visits of descriptors whose text was not read or not converted
FailedVisits ==
    ParseFailures
    \cup {k \in 1..Len(visited) :
            \E j \in 1..Len(failures) :
                /\ failures[j].call = "read_to_string"
                /\ failures[j].node = visited[k].node}

\* the example an object of a descriptor text describes
ExampleOf(o) == [name |-> o.name, apps |-> o.apps]

\* what one descriptor text is to contribute: its object, or the objects of
\* its array in their order
Contribution(c) ==
    IF c.json = "array"
    THEN [k \in 1..Len(c.value) |-> ExampleOf(c.value[k])]
    ELSE <<ExampleOf(c.value)>>

\* the contributions of the first n visits, in the order of the visits
RECURSIVE Yield(_)
Yield(n) ==
    IF n = 0
    THEN <<>>
    ELSE Yield(n - 1)
         \o (IF visited[n].as = "descriptor" /\ n \notin FailedVisits
             THEN Contribution(fs[visited[n].node].content.val)
             ELSE <<>>)

\* C15: at every moment the loader's result is the concatenation, in
\* traversal order, of the contributions of the descriptor files read so far:
\* one example for a file holding an object, the N examples of a file holding
\* an array of N objects in array order (none for an empty array), and
\* nothing from any other entry.
C15_ResultIsConcatenation == configs = Yield(Len(visited))

\* a file holding an array of two objects, then a file holding one object:
\* the scan has returned three examples, the array's first
C15_Witness ==
    /\ pc = "check_configs"
    /\ Len(visited) >= 2
    /\ visited[1].as = "descriptor"
    /\ visited[2].as = "descriptor"
    /\ fs[visited[1].node].content.val = Array(Items(2))
    /\ fs[visited[2].node].content.val.json = "object"
    /\ Names(configs) = <<<<"a">>, <<"b">>, <<"b">>>>

====
